---- MODULE Spec2Model ----
(***************************************************************************)
(* PostingDataTable (src/src/posting/widgets/datatable.py): a DataTable    *)
(* subclass with a per-row checkbox, wrap-around / focus-escape cursor     *)
(* navigation, RowsAdded / RowsRemoved notifications and a column-width    *)
(* refresh after removals.                                                 *)
(*                                                                         *)
(* The state is the widget's: the ordered columns, the ordered rows with   *)
(* their cells, the cursor coordinate, the message queue of the widget,    *)
(* the "empty" CSS class, fixed_columns and its backup, and the            *)
(* configuration attributes.  lastOp records the operation that ran last   *)
(* and what the caller observed of it (the exception raised, the calls     *)
(* made to the screen's focus manager).                                    *)
(***************************************************************************)
EXTENDS Integers, Sequences, FiniteSets, TLC

\* ---------------------------------------------------------------- bounds
MaxRows == 2
MaxNavRows == 3
MaxCols == 3
MaxQueue == 3
MaxFixed == 1

RowKeys == 1 .. (MaxRows + MaxNavRows)
ColKeyArgs == {"checkbox", "a", "b"}
TextWidths == {1, 2}
CursorTypes == {"cell", "row", "column", "none"}

LabelWidths == {1}

\* width: int | None = None (add_column); 0 stands for None
NoWidth == 0

\* key: str | None = None (add_row); row keys are 1, 2, ... and 0 stands for None
NoKey == 0

\* ---------------------------------------------------------------- cells
\* Checkbox dataclass: one mutable flag.
Checkbox(checked) == [kind |-> "checkbox", checked |-> checked, w |-> 0]

\* A str | Text cell, known to the table only by its rendered width.
TextCell(w) == [kind |-> "text", checked |-> FALSE, w |-> w]

\* The cell of a column no value was supplied for.
NoneCell == [kind |-> "none", checked |-> FALSE, w |-> 0]

\* Checkbox.toggle
Toggle(cell) == [cell EXCEPT !.checked = ~cell.checked]

VARIABLES columns, rows, cursor, queue, empty, fixed_columns, fixed_columns_bak,
          row_disable, cursor_vertical_escape, structural, lastOp

vars == <<columns, rows, cursor, queue, empty, fixed_columns, fixed_columns_bak,
          row_disable, cursor_vertical_escape, structural, lastOp>>

config == <<row_disable, cursor_vertical_escape>>

\* ---------------------------------------------------------------- helpers
Max(a, b) == IF a >= b THEN a ELSE b

RECURSIVE SeqMax(_)
SeqMax(s) == IF s = <<>> THEN 0 ELSE Max(Head(s), SeqMax(Tail(s)))

row_count == Len(rows)

Op(name, err) == [op |-> name, err |-> err, focus_next |-> 0, focus_previous |-> 0]

\* ---------------------------------------------------------------- DataTable
\* The operations of the base class the overrides call through super(), as
\* functions of the table st = [columns, rows, cursor, queue].

\* textual.geometry.clamp: the bounds may be given in reverse order
Clamp(value, minimum, maximum) ==
    LET lo == IF minimum > maximum THEN maximum ELSE minimum
        hi == IF minimum > maximum THEN minimum ELSE maximum
    IN  IF value < lo THEN lo ELSE IF value > hi THEN hi ELSE value

\* DataTable.validate_cursor_coordinate: runs on every assignment to cursor_coordinate
ClampCursor(st, coord) ==
    [row |-> Clamp(coord.row, 0, Len(st.rows) - 1),
     column |-> Clamp(coord.column, 0, Len(st.columns) - 1)]

\* measure(console, default_cell_formatter(cell), 1): a Checkbox renders through
\* __rich__ and measures 1, a text its width, a missing value nothing
CellWidth(cell) ==
    CASE cell.kind = "checkbox" -> 1
      [] cell.kind = "text" -> cell.w
      [] OTHER -> 0

KeysOf(seq) == {seq[i].key : i \in 1 .. Len(seq)}

IndexOf(seq, key) == CHOOSE i \in 1 .. Len(seq) : seq[i].key = key

RemoveAt(seq, i) == [j \in 1 .. Len(seq) - 1 |-> IF j < i THEN seq[j] ELSE seq[j + 1]]

\* RowKey(None): a key no other row has
FreshRowKey(st) == CHOOSE k \in RowKeys \ KeysOf(st.rows) :
                       \A j \in RowKeys \ KeysOf(st.rows) : k <= j

\* DataTable.add_column
BaseAddColumn(st, label_width, width, key, default) ==
    IF key \in KeysOf(st.columns)
    THEN [err |-> "DuplicateKey", st |-> st]
    ELSE LET column == [key |-> key,
                        label_width |-> label_width,
                        width |-> IF width = NoWidth THEN label_width ELSE width,
                        content_width |-> label_width,
                        auto_width |-> (width = NoWidth)]
             withCell(r) == [r EXCEPT !.cells =
                                [c \in DOMAIN r.cells \cup {key} |->
                                    IF c = key THEN default ELSE r.cells[c]]]
         IN  [err |-> "none",
              st |-> [st EXCEPT !.columns = Append(st.columns, column),
                                !.rows = [i \in 1 .. Len(st.rows) |-> withCell(st.rows[i])]]]

\* DataTable._update_dimensions for one new row: each column's content width
\* grows to the width of the new cell
GrowWidths(cols, cells) ==
    [i \in 1 .. Len(cols) |->
        [cols[i] EXCEPT !.content_width = Max(@, CellWidth(cells[cols[i].key]))]]

\* DataTable.add_row
BaseAddRow(st, cells, key) ==
    IF key # NoKey /\ key \in KeysOf(st.rows)
    THEN [err |-> "DuplicateKey", st |-> st]
    ELSE IF Len(cells) > Len(st.columns)
    THEN [err |-> "ValueError", st |-> st]
    ELSE LET row_key == IF key = NoKey THEN FreshRowKey(st) ELSE key
             data == [c \in KeysOf(st.columns) |->
                         IF IndexOf(st.columns, c) <= Len(cells)
                         THEN cells[IndexOf(st.columns, c)] ELSE NoneCell]
             added == [st EXCEPT !.rows = Append(st.rows, [key |-> row_key, cells |-> data]),
                                 !.columns = GrowWidths(st.columns, data)]
         IN  [err |-> "none",
              st |-> [added EXCEPT !.cursor = ClampCursor(added, st.cursor)]]

\* DataTable.remove_row
BaseRemoveRow(st, row_key) ==
    IF row_key \notin KeysOf(st.rows)
    THEN [err |-> "RowDoesNotExist", st |-> st]
    ELSE LET removed == [st EXCEPT !.rows = RemoveAt(st.rows, IndexOf(st.rows, row_key))]
         IN  [err |-> "none",
              st |-> [removed EXCEPT !.cursor = ClampCursor(removed, st.cursor)]]

\* DataTable.clear
BaseClear(st, with_columns) ==
    LET cleared == [st EXCEPT !.rows = <<>>,
                              !.columns = IF with_columns THEN <<>> ELSE @]
    IN  [cleared EXCEPT !.cursor = ClampCursor(cleared, [row |-> 0, column |-> 0])]

\* DataTable._update_column_widths for the cells of one row
UpdateColumnWidths(st, row_key, column_keys) ==
    LET refreshed(col) ==
            LET new_width == CellWidth(st.rows[IndexOf(st.rows, row_key)].cells[col.key])
                label_width == col.label_width
                all == [i \in 1 .. Len(st.rows) |-> CellWidth(st.rows[i].cells[col.key])]
            IN  IF col.key \notin column_keys THEN col
                ELSE IF new_width < col.content_width
                THEN [col EXCEPT !.content_width = Max(SeqMax(all), label_width)]
                ELSE [col EXCEPT !.content_width = Max(new_width, label_width)]
    IN  [st EXCEPT !.columns = [i \in 1 .. Len(st.columns) |-> refreshed(st.columns[i])]]

\* DataTable.is_valid_coordinate
IsValidCoordinate(st, coord) ==
    /\ 0 <= coord.row /\ coord.row < Len(st.rows)
    /\ 0 <= coord.column /\ coord.column < Len(st.columns)

\* DataTable.coordinate_to_cell_key: the row key, or CellDoesNotExist
CoordinateToRowKey(st, coord) ==
    IF IsValidCoordinate(st, coord)
    THEN [err |-> "none", row_key |-> st.rows[coord.row + 1].key]
    ELSE [err |-> "CellDoesNotExist", row_key |-> NoKey]

\* DataTable.get_cell: the cell, or CellDoesNotExist
GetCell(st, row_key, column_key) ==
    IF row_key \in KeysOf(st.rows) /\ column_key \in KeysOf(st.columns)
    THEN [err |-> "none", cell |-> st.rows[IndexOf(st.rows, row_key)].cells[column_key]]
    ELSE [err |-> "CellDoesNotExist", cell |-> NoneCell]

\* ---------------------------------------------------------------- PostingDataTable
Table == [columns |-> columns, rows |-> rows, cursor |-> cursor, queue |-> queue]

\* RowsAdded / RowsRemoved dataclasses (data_table is the widget itself)
RowsRemoved(explicit_by_user) == [kind |-> "RowsRemoved", explicit_by_user |-> explicit_by_user]

RowsAdded(explicit_by_user) == [kind |-> "RowsAdded", explicit_by_user |-> explicit_by_user]

\* self.post_message(msg)
PostMessage(st, msg) == [st EXCEPT !.queue = Append(@, msg)]

\* add_row with the checkbox created unchecked
add_row_unchecked(st, cells, key, explicit_by_user) ==
    LET all_cells == IF row_disable THEN <<Checkbox(FALSE)>> \o cells ELSE cells
        posted == PostMessage(st, RowsAdded(explicit_by_user))
    IN  BaseAddRow(posted, all_cells, key)

\* add_row with the checkbox put after the cells of the caller
add_row_checkbox_last(st, cells, key, explicit_by_user) ==
    LET all_cells == IF row_disable THEN cells \o <<Checkbox(TRUE)>> ELSE cells
        posted == PostMessage(st, RowsAdded(explicit_by_user))
    IN  BaseAddRow(posted, all_cells, key)

\* add_row that posts RowsAdded after the base class has added the row
add_row_post_after(st, cells, key, explicit_by_user) ==
    LET all_cells == IF row_disable THEN <<Checkbox(TRUE)>> \o cells ELSE cells
        r == BaseAddRow(st, all_cells, key)
    IN  IF r.err # "none" THEN r
        ELSE [err |-> "none", st |-> PostMessage(r.st, RowsAdded(explicit_by_user))]

\* PostingDataTable.add_row
add_row(st, cells, key, explicit_by_user) ==
    LET all_cells == IF row_disable THEN <<Checkbox(TRUE)>> \o cells ELSE cells
        posted == PostMessage(st, RowsAdded(explicit_by_user))
    IN  BaseAddRow(posted, all_cells, key)

\* add_column that inserts the checkbox column whatever the columns are
add_column_always(st, label_width, width, key, default) ==
    LET checkbox ==
            IF row_disable
            THEN BaseAddColumn(st, 0, 1, "checkbox", NoneCell)
            ELSE [err |-> "none", st |-> st]
    IN  IF checkbox.err # "none" THEN checkbox
        ELSE BaseAddColumn(checkbox.st, label_width, width, key, default)

\* PostingDataTable.add_column
add_column(st, label_width, width, key, default) ==
    LET checkbox ==
            IF row_disable /\ Len(st.columns) = 0
            THEN BaseAddColumn(st, 0, 1, "checkbox", NoneCell)
            ELSE [err |-> "none", st |-> st]
    IN  IF checkbox.err # "none" THEN checkbox
        ELSE BaseAddColumn(checkbox.st, label_width, width, key, default)

\* PostingDataTable._column_width_refresh
column_width_refresh(st) ==
    IF Len(st.rows) > 0
    THEN LET row_zero == st.rows[1].key
             cols == DOMAIN st.rows[1].cells
         IN  UpdateColumnWidths(st, row_zero, cols)
    ELSE st

\* remove_row that removes row zero, the row the width refresh reads
remove_row_zero(st, row_key) ==
    LET posted == PostMessage(st, RowsRemoved(TRUE))
        rv == IF row_key \in KeysOf(posted.rows)
              THEN BaseRemoveRow(posted, posted.rows[1].key)
              ELSE BaseRemoveRow(posted, row_key)
    IN  IF rv.err # "none" THEN rv
        ELSE [err |-> "none", st |-> column_width_refresh(rv.st)]

\* remove_row that swallows the exception of the base class
remove_row_silent(st, row_key) ==
    LET posted == PostMessage(st, RowsRemoved(TRUE))
        rv == BaseRemoveRow(posted, row_key)
    IN  [err |-> "none", st |-> column_width_refresh(rv.st)]

\* remove_row that posts RowsRemoved after the base class has removed the row
remove_row_post_after(st, row_key) ==
    LET rv == BaseRemoveRow(st, row_key)
    IN  IF rv.err # "none" THEN rv
        ELSE [err |-> "none",
              st |-> column_width_refresh(PostMessage(rv.st, RowsRemoved(TRUE)))]

\* PostingDataTable.remove_row
remove_row(st, row_key) ==
    LET posted == PostMessage(st, RowsRemoved(TRUE))
        rv == BaseRemoveRow(posted, row_key)
    IN  IF rv.err # "none" THEN rv
        ELSE [err |-> "none", st |-> column_width_refresh(rv.st)]

\* PostingDataTable.clear
clear(st, with_columns) ==
    LET posted == PostMessage(st, RowsRemoved(FALSE))
    IN  column_width_refresh(BaseClear(posted, with_columns))

\* the loop of replace_all_rows: an exception of add_row ends it
RECURSIVE AddRows(_, _)
AddRows(st, new_rows) ==
    IF new_rows = <<>> THEN [err |-> "none", st |-> st]
    ELSE LET r == add_row(st, Head(new_rows), NoKey, FALSE)
         IN  IF r.err # "none" THEN r ELSE AddRows(r.st, Tail(new_rows))

\* replace_all_rows that adds the rows without clearing first
replace_all_rows_append(st, new_rows) ==
    LET r == AddRows(st, new_rows)
    IN  IF r.err # "none" THEN r
        ELSE [err |-> "none", st |-> column_width_refresh(r.st)]

\* PostingDataTable.replace_all_rows
replace_all_rows(st, new_rows) ==
    LET r == AddRows(clear(st, FALSE), new_rows)
    IN  IF r.err # "none" THEN r
        ELSE [err |-> "none", st |-> column_width_refresh(r.st)]

\* Coordinate.down / up / right / left
Down(coord) == [coord EXCEPT !.row = @ + 1]

Up(coord) == [coord EXCEPT !.row = @ - 1]

Right(coord) == [coord EXCEPT !.column = @ + 1]

Left(coord) == [coord EXCEPT !.column = @ - 1]

\* DataTable.action_cursor_down / action_cursor_up: a column or hidden cursor scrolls instead
BaseCursorDown(st, show_cursor, cursor_type) ==
    IF show_cursor /\ (cursor_type = "cell" \/ cursor_type = "row")
    THEN ClampCursor(st, Down(st.cursor)) ELSE st.cursor

BaseCursorUp(st, show_cursor, cursor_type) ==
    IF show_cursor /\ (cursor_type = "cell" \/ cursor_type = "row")
    THEN ClampCursor(st, Up(st.cursor)) ELSE st.cursor

\* DataTable.action_cursor_right / action_cursor_left
BaseCursorRight(st, show_cursor, cursor_type) ==
    IF show_cursor /\ (cursor_type = "cell" \/ cursor_type = "column")
    THEN ClampCursor(st, Right(st.cursor)) ELSE st.cursor

BaseCursorLeft(st, show_cursor, cursor_type) ==
    IF show_cursor /\ (cursor_type = "cell" \/ cursor_type = "column")
    THEN ClampCursor(st, Left(st.cursor)) ELSE st.cursor

\* action_cursor_down that takes row_count for the index of the last row
cursor_down_off_by_one(st, show_cursor, cursor_type) ==
    IF st.cursor.row = Len(st.rows) /\ cursor_vertical_escape
    THEN [cursor |-> st.cursor, focus_next |-> 1, focus_previous |-> 0]
    ELSE IF show_cursor /\ (cursor_type = "cell" \/ cursor_type = "row")
    THEN IF st.cursor.row = Len(st.rows) - 1
         THEN [cursor |-> ClampCursor(st, [row |-> 0, column |-> st.cursor.column]),
               focus_next |-> 0, focus_previous |-> 0]
         ELSE [cursor |-> ClampCursor(st, Down(st.cursor)),
               focus_next |-> 0, focus_previous |-> 0]
    ELSE [cursor |-> BaseCursorDown(st, show_cursor, cursor_type),
          focus_next |-> 0, focus_previous |-> 0]

\* action_cursor_down that wraps to the first cell of row 0
cursor_down_first_column(st, show_cursor, cursor_type) ==
    IF st.cursor.row = Len(st.rows) - 1 /\ cursor_vertical_escape
    THEN [cursor |-> st.cursor, focus_next |-> 1, focus_previous |-> 0]
    ELSE IF show_cursor /\ (cursor_type = "cell" \/ cursor_type = "row")
    THEN IF st.cursor.row = Len(st.rows) - 1
         THEN [cursor |-> ClampCursor(st, [row |-> 0, column |-> 0]),
               focus_next |-> 0, focus_previous |-> 0]
         ELSE [cursor |-> ClampCursor(st, Down(st.cursor)),
               focus_next |-> 0, focus_previous |-> 0]
    ELSE [cursor |-> BaseCursorDown(st, show_cursor, cursor_type),
          focus_next |-> 0, focus_previous |-> 0]

\* action_cursor_down that takes every row from the last one on for the last row
cursor_down_past_end(st, show_cursor, cursor_type) ==
    IF st.cursor.row >= Len(st.rows) - 1 /\ cursor_vertical_escape
    THEN [cursor |-> st.cursor, focus_next |-> 1, focus_previous |-> 0]
    ELSE IF show_cursor /\ (cursor_type = "cell" \/ cursor_type = "row")
    THEN IF st.cursor.row = Len(st.rows) - 1
         THEN [cursor |-> ClampCursor(st, [row |-> 0, column |-> st.cursor.column]),
               focus_next |-> 0, focus_previous |-> 0]
         ELSE [cursor |-> ClampCursor(st, Down(st.cursor)),
               focus_next |-> 0, focus_previous |-> 0]
    ELSE [cursor |-> BaseCursorDown(st, show_cursor, cursor_type),
          focus_next |-> 0, focus_previous |-> 0]

\* PostingDataTable.action_cursor_down: the new cursor and the calls to the screen
cursor_down(st, show_cursor, cursor_type) ==
    IF st.cursor.row = Len(st.rows) - 1 /\ cursor_vertical_escape
    THEN [cursor |-> st.cursor, focus_next |-> 1, focus_previous |-> 0]
    ELSE IF show_cursor /\ (cursor_type = "cell" \/ cursor_type = "row")
    THEN IF st.cursor.row = Len(st.rows) - 1
         THEN [cursor |-> ClampCursor(st, [row |-> 0, column |-> st.cursor.column]),
               focus_next |-> 0, focus_previous |-> 0]
         ELSE [cursor |-> ClampCursor(st, Down(st.cursor)),
               focus_next |-> 0, focus_previous |-> 0]
    ELSE [cursor |-> BaseCursorDown(st, show_cursor, cursor_type),
          focus_next |-> 0, focus_previous |-> 0]

\* action_cursor_up that steps up from row 0 instead of wrapping
cursor_up_no_wrap(st, show_cursor, cursor_type) ==
    IF st.cursor.row = 0 /\ cursor_vertical_escape
    THEN [cursor |-> st.cursor, focus_next |-> 0, focus_previous |-> 1]
    ELSE [cursor |-> BaseCursorUp(st, show_cursor, cursor_type),
          focus_next |-> 0, focus_previous |-> 0]

\* action_cursor_up that wraps from row 0 whatever cursor_vertical_escape is
cursor_up_always_wrap(st, show_cursor, cursor_type) ==
    IF show_cursor /\ (cursor_type = "cell" \/ cursor_type = "row")
    THEN IF st.cursor.row = 0
         THEN [cursor |-> ClampCursor(st, [row |-> Len(st.rows) - 1, column |-> st.cursor.column]),
               focus_next |-> 0, focus_previous |-> 0]
         ELSE [cursor |-> ClampCursor(st, Up(st.cursor)),
               focus_next |-> 0, focus_previous |-> 0]
    ELSE [cursor |-> BaseCursorUp(st, show_cursor, cursor_type),
          focus_next |-> 0, focus_previous |-> 0]

\* PostingDataTable.action_cursor_up
cursor_up(st, show_cursor, cursor_type) ==
    IF st.cursor.row = 0 /\ cursor_vertical_escape
    THEN [cursor |-> st.cursor, focus_next |-> 0, focus_previous |-> 1]
    ELSE IF show_cursor /\ (cursor_type = "cell" \/ cursor_type = "row")
    THEN IF st.cursor.row = 0
         THEN [cursor |-> ClampCursor(st, [row |-> Len(st.rows) - 1, column |-> st.cursor.column]),
               focus_next |-> 0, focus_previous |-> 0]
         ELSE [cursor |-> ClampCursor(st, Up(st.cursor)),
               focus_next |-> 0, focus_previous |-> 0]
    ELSE [cursor |-> BaseCursorUp(st, show_cursor, cursor_type),
          focus_next |-> 0, focus_previous |-> 0]

\* action_toggle_row that toggles the checkbox of every row
toggle_row_all(st) ==
    LET at == CoordinateToRowKey(st, st.cursor)
        got == GetCell(st, at.row_key, "checkbox")
    IN  IF at.err # "none" \/ got.err # "none" THEN [err |-> "none", st |-> st]
        ELSE IF got.cell.kind # "checkbox" THEN [err |-> "AttributeError", st |-> st]
        ELSE [err |-> "none",
              st |-> [st EXCEPT !.rows = [j \in 1 .. Len(st.rows) |->
                         [st.rows[j] EXCEPT !.cells["checkbox"] = Toggle(@)]]]]

\* PostingDataTable.action_toggle_row: the rows after the command, and the exception
\* that leaves it (CellDoesNotExist is caught)
toggle_row(st) ==
    LET at == CoordinateToRowKey(st, st.cursor)
        got == GetCell(st, at.row_key, "checkbox")
        i == IndexOf(st.rows, at.row_key)
    IN  IF at.err # "none" \/ got.err # "none" THEN [err |-> "none", st |-> st]
        ELSE IF got.cell.kind # "checkbox" THEN [err |-> "AttributeError", st |-> st]
        ELSE [err |-> "none",
              st |-> [st EXCEPT !.rows[i].cells["checkbox"] = Toggle(got.cell)]]

\* PostingDataTable.action_remove_row
action_remove_row(st) ==
    LET at == CoordinateToRowKey(st, st.cursor)
    IN  IF at.err # "none" THEN [err |-> "none", st |-> st]
        ELSE remove_row(st, at.row_key)

\* _on_rows_removed that adds the class and never removes it
on_rows_removed_add_only(st, has_class) == has_class \/ Len(st.rows) = 0

\* PostingDataTable._on_rows_removed: whether the widget has the class "empty" after
\* the handler
on_rows_removed(st, has_class) == Len(st.rows) = 0

\* action_toggle_fixed_columns that takes a new backup at every invocation
toggle_fixed_columns_rebackup(fixed, bak) ==
    [fixed_columns |-> IF fixed = 0 THEN fixed ELSE 0,
     fixed_columns_bak |-> <<fixed>>]

\* PostingDataTable.action_toggle_fixed_columns on (fixed_columns, _fixed_columns_bak);
\* the backup is <<>> for None and <<n>> for n
toggle_fixed_columns(fixed, bak) ==
    LET new_bak == IF bak = <<>> THEN <<fixed>> ELSE bak
    IN  [fixed_columns |-> IF fixed = 0 THEN new_bak[1] ELSE 0,
         fixed_columns_bak |-> new_bak]

\* ---------------------------------------------------------------- arguments
\* the cells a caller passes to add_row: n texts of one width
CellsOf(widths) == {[i \in 1 .. n |-> TextCell(w)] : n \in 0 .. MaxCols, w \in widths}

CellArgs == CellsOf(TextWidths)

DefaultArgs == {NoneCell}

WidthArgs == {NoWidth}

\* ---------------------------------------------------------------- state machine
\* The table right after construction and configuration by the host: no column,
\* no row, cursor at (0, 0), no "empty" class, no backup of fixed_columns.
Init ==
    /\ columns = <<>>
    /\ rows = <<>>
    /\ cursor = [row |-> 0, column |-> 0]
    /\ queue = <<>>
    /\ empty = FALSE
    /\ fixed_columns \in 0 .. MaxFixed
    /\ fixed_columns_bak = <<>>
    /\ row_disable \in BOOLEAN
    /\ cursor_vertical_escape \in BOOLEAN
    /\ structural = FALSE
    /\ lastOp = Op("init", "none")

Apply(st) ==
    /\ columns' = st.columns
    /\ rows' = st.rows
    /\ cursor' = st.cursor
    /\ queue' = st.queue

AddRow(cells, key, explicit_by_user) ==
    /\ LET r == add_row(Table, cells, key, explicit_by_user)
       IN  Apply(r.st) /\ lastOp' = Op("add_row", r.err)
    /\ structural' = TRUE
    /\ UNCHANGED <<empty, fixed_columns, fixed_columns_bak, config>>

AddColumn(label_width, width, key, default) ==
    /\ LET r == add_column(Table, label_width, width, key, default)
       IN  Apply(r.st) /\ lastOp' = Op("add_column", r.err)
    /\ UNCHANGED <<empty, fixed_columns, fixed_columns_bak, config, structural>>

RemoveRow(row_key) ==
    /\ LET r == remove_row(Table, row_key)
       IN  Apply(r.st) /\ lastOp' = Op("remove_row", r.err)
    /\ structural' = TRUE
    /\ UNCHANGED <<empty, fixed_columns, fixed_columns_bak, config>>

Clear(with_columns) ==
    /\ Apply(clear(Table, with_columns))
    /\ lastOp' = Op("clear", "none")
    /\ structural' = TRUE
    /\ UNCHANGED <<empty, fixed_columns, fixed_columns_bak, config>>

ReplaceAllRows(new_rows) ==
    /\ LET r == replace_all_rows(Table, new_rows)
       IN  Apply(r.st) /\ lastOp' = Op("replace_all_rows", r.err)
    /\ structural' = TRUE
    /\ UNCHANGED <<empty, fixed_columns, fixed_columns_bak, config>>

CursorDown(show_cursor, cursor_type) ==
    /\ LET r == cursor_down(Table, show_cursor, cursor_type)
       IN  /\ cursor' = r.cursor
           /\ lastOp' = [Op("cursor_down", "none") EXCEPT
                            !.focus_next = r.focus_next,
                            !.focus_previous = r.focus_previous]
    /\ UNCHANGED <<columns, rows, queue, empty, fixed_columns, fixed_columns_bak,
                   config, structural>>

CursorUp(show_cursor, cursor_type) ==
    /\ LET r == cursor_up(Table, show_cursor, cursor_type)
       IN  /\ cursor' = r.cursor
           /\ lastOp' = [Op("cursor_up", "none") EXCEPT
                            !.focus_next = r.focus_next,
                            !.focus_previous = r.focus_previous]
    /\ UNCHANGED <<columns, rows, queue, empty, fixed_columns, fixed_columns_bak,
                   config, structural>>

CursorRight(show_cursor, cursor_type) ==
    /\ cursor' = BaseCursorRight(Table, show_cursor, cursor_type)
    /\ lastOp' = Op("cursor_right", "none")
    /\ UNCHANGED <<columns, rows, queue, empty, fixed_columns, fixed_columns_bak,
                   config, structural>>

CursorLeft(show_cursor, cursor_type) ==
    /\ cursor' = BaseCursorLeft(Table, show_cursor, cursor_type)
    /\ lastOp' = Op("cursor_left", "none")
    /\ UNCHANGED <<columns, rows, queue, empty, fixed_columns, fixed_columns_bak,
                   config, structural>>

ToggleRow ==
    /\ LET r == toggle_row(Table)
       IN  Apply(r.st) /\ lastOp' = Op("toggle_row", r.err)
    /\ UNCHANGED <<empty, fixed_columns, fixed_columns_bak, config, structural>>

RemoveCurrentRow ==
    /\ LET r == action_remove_row(Table)
       IN  Apply(r.st) /\ lastOp' = Op("action_remove_row", r.err)
    /\ structural' = (structural \/ IsValidCoordinate(Table, cursor))
    /\ UNCHANGED <<empty, fixed_columns, fixed_columns_bak, config>>

ToggleFixedColumns ==
    /\ LET r == toggle_fixed_columns(fixed_columns, fixed_columns_bak)
       IN  /\ fixed_columns' = r.fixed_columns
           /\ fixed_columns_bak' = r.fixed_columns_bak
    /\ lastOp' = Op("toggle_fixed_columns", "none")
    /\ UNCHANGED <<columns, rows, cursor, queue, empty, config, structural>>

\* the host assigns the reactive attribute fixed_columns
SetFixedColumns(n) ==
    /\ fixed_columns' = n
    /\ lastOp' = Op("set_fixed_columns", "none")
    /\ UNCHANGED <<columns, rows, cursor, queue, empty, fixed_columns_bak, config, structural>>

\* PostingDataTable._on_rows_removed: the handler of the message at the head of the queue
OnRowsRemoved ==
    /\ queue # <<>>
    /\ queue' = Tail(queue)
    /\ empty' = on_rows_removed(Table, empty)
    /\ lastOp' = Op("on_rows_removed", "none")
    /\ UNCHANGED <<columns, rows, cursor, fixed_columns, fixed_columns_bak, config, structural>>

\* ---------------------------------------------------------------- next-state relations
\* The calls of the host on the rows, explored while the table holds fewer than
\* row_cap rows and the queue fewer than queue_cap messages.  remove_row is called
\* with the keys rows can have and with one key no row ever has.
RowCalls(row_cap, queue_cap, cell_args, key_args) ==
    \/ /\ Len(rows) < row_cap
       /\ Len(queue) < queue_cap
       /\ \E cells \in cell_args, key \in key_args, e \in BOOLEAN : AddRow(cells, key, e)
    \/ /\ Len(queue) < queue_cap
       /\ \E key \in 1 .. row_cap + 1 : RemoveRow(key)
    \/ /\ Len(queue) < queue_cap
       /\ \E b \in BOOLEAN : Clear(b)

\* add_column, explored while the table holds at most col_cap columns.
ColumnCalls(col_cap, col_key_args) ==
    /\ Len(columns) + (IF row_disable /\ Len(columns) = 0 THEN 2 ELSE 1) <= col_cap
    /\ \E lw \in LabelWidths, w \in WidthArgs, key \in col_key_args, d \in DefaultArgs :
           AddColumn(lw, w, key, d)

\* replace_all_rows posts one message for the clear and one per row
ReplaceCalls(row_cap, queue_cap, cell_args) ==
    \E n \in 0 .. row_cap :
        /\ Len(queue) + 1 + n <= queue_cap
        /\ \E new_rows \in [1 .. n -> cell_args] : ReplaceAllRows(new_rows)

\* The key bindings that move the cursor, under the cursor settings of the host.
CursorCommands(shown, types) ==
    \/ \E sc \in shown, ct \in types : CursorDown(sc, ct)
    \/ \E sc \in shown, ct \in types : CursorUp(sc, ct)

\* explored on a table that has columns
SideCommands(shown, types) ==
    \/ Len(columns) > 0 /\ \E sc \in shown, ct \in types : CursorRight(sc, ct)
    \/ Len(columns) > 0 /\ \E sc \in shown, ct \in types : CursorLeft(sc, ct)

RowCommands(queue_cap) ==
    \/ ToggleRow
    \/ Len(queue) < queue_cap /\ RemoveCurrentRow

FixedCommands ==
    \/ ToggleFixedColumns
    \/ \E n \in 0 .. MaxFixed : SetFixedColumns(n)

\* The whole widget.
Next ==
    \/ RowCalls(MaxNavRows, MaxQueue, CellArgs, RowKeys \cup {NoKey})
    \/ ColumnCalls(MaxCols, ColKeyArgs)
    \/ ReplaceCalls(MaxNavRows, MaxQueue, CellArgs)
    \/ CursorCommands(BOOLEAN, CursorTypes)
    \/ SideCommands(BOOLEAN, CursorTypes)
    \/ RowCommands(MaxQueue)
    \/ FixedCommands
    \/ OnRowsRemoved

Spec == Init /\ [][Next]_vars

\* Rows, cells and checkboxes: every call and command on the rows, with the cursor
\* moved by a shown cell cursor that wraps, and each notification delivered before
\* the next call posts one.
InitGrid == Init /\ ~cursor_vertical_escape /\ fixed_columns = 0

NextGrid ==
    \/ RowCalls(MaxRows, 1, CellsOf({1}), (1 .. MaxRows) \cup {NoKey})
    \/ ColumnCalls(MaxCols, ColKeyArgs)
    \/ ReplaceCalls(MaxRows, 2, CellsOf({1}))
    \/ CursorCommands({TRUE}, {"cell"})
    \/ RowCommands(1)
    \/ OnRowsRemoved

SpecGrid == InitGrid /\ [][NextGrid]_vars

\* Navigation: up to MaxNavRows rows of at most two plain columns, the cursor moved
\* in the four directions under every cursor setting, with vertical escape on or off.
InitNav == Init /\ ~row_disable /\ fixed_columns = 0

NextNav ==
    \/ RowCalls(MaxNavRows, 1, {<<>>, <<TextCell(1)>>}, {NoKey})
    \/ ColumnCalls(2, {"a", "b"})
    \/ ReplaceCalls(1, 2, {<<>>})
    \/ CursorCommands(BOOLEAN, CursorTypes)
    \/ SideCommands({TRUE}, {"cell"})
    \/ Len(queue) < 1 /\ RemoveCurrentRow
    \/ OnRowsRemoved

SpecNav == InitNav /\ [][NextNav]_vars

\* Fixed columns: the toggle command and the host's assignments to fixed_columns,
\* on a table the host adds columns to and moves the cursor across.
InitFixed == Init /\ ~row_disable /\ cursor_vertical_escape

NextFixed ==
    \/ FixedCommands
    \/ ColumnCalls(MaxCols, {"a", "b"})
    \/ SideCommands({TRUE}, {"cell"})

SpecFixed == InitFixed /\ [][NextFixed]_vars

\* Notifications: up to MaxQueue messages in flight while rows come and go.
InitQueue == Init /\ ~row_disable /\ cursor_vertical_escape /\ fixed_columns = 0

NextQueue ==
    \/ RowCalls(MaxRows, MaxQueue, {<<>>}, {NoKey})
    \/ ColumnCalls(1, {"a"})
    \/ ReplaceCalls(MaxRows, MaxQueue, {<<>>})
    \/ CursorCommands({TRUE}, {"cell"})
    \/ Len(queue) < MaxQueue /\ RemoveCurrentRow
    \/ OnRowsRemoved

SpecQueue == InitQueue /\ [][NextQueue]_vars

\* Contents: rows of at most one text of either width, added, removed and replaced
\* in a table of one text column (after the checkbox column under row-selection),
\* with up to MaxQueue notifications in flight after a replace_all_rows.
WidthCells == {<<>>} \cup {<<TextCell(w)>> : w \in TextWidths}

InitWidth == Init /\ cursor_vertical_escape /\ fixed_columns = 0

NextWidth ==
    \/ RowCalls(MaxRows, 1, WidthCells, {NoKey})
    \/ ColumnCalls(2, {"a"})
    \/ ReplaceCalls(MaxRows, MaxQueue, WidthCells)
    \/ OnRowsRemoved

SpecWidth == InitWidth /\ [][NextWidth]_vars

\* ---------------------------------------------------------------- claims
\* the cell of a row in the first column
FirstCell(row) == row.cells[columns[1].key]

C5_ToggleExactlyOne ==
    [][(ToggleRow /\ row_disable /\ IsValidCoordinate(Table, cursor)) =>
        LET i == cursor.row + 1
        IN  /\ lastOp'.err = "none"
            /\ Len(rows') = Len(rows)
            /\ \A j \in 1 .. Len(rows) : rows'[j].key = rows[j].key
            /\ rows'[i].cells["checkbox"].kind = "checkbox"
            /\ rows'[i].cells["checkbox"].checked = ~rows[i].cells["checkbox"].checked
            /\ \A c \in KeysOf(columns) \ {"checkbox"} : rows'[i].cells[c] = rows[i].cells[c]
            /\ \A j \in (1 .. Len(rows)) \ {i} : rows'[j] = rows[j]
            /\ cursor' = cursor
            /\ columns' = columns
            /\ queue' = queue
      ]_vars

\* the second of two rows has just been toggled off; the first is still checked
C5_Witness ==
    /\ row_disable /\ lastOp.op = "toggle_row" /\ lastOp.err = "none"
    /\ Len(rows) = 2 /\ cursor.row = 1
    /\ rows[1].cells["checkbox"] = Checkbox(TRUE)
    /\ rows[2].cells["checkbox"] = Checkbox(FALSE)

\* the columns made by the automatic insertion: label "", width 1, key "checkbox"
CheckboxColumns == {i \in 1 .. Len(columns) : columns[i].key = "checkbox"}

\* C7: with row-selection enabled there is at most one checkbox column and, when
\* columns exist, it is the first one and has width 1; add_column on an empty column
\* set inserts it once, and add_column on a non-empty column set inserts none: it
\* appends the new column alone, or fails on a key collision and changes nothing.
C7_OneCheckboxColumn ==
    [][row_disable =>
        /\ Cardinality(CheckboxColumns') <= 1
        /\ columns' # <<>> =>
               /\ CheckboxColumns' = {1}
               /\ columns'[1].width = 1 /\ ~columns'[1].auto_width
        /\ \A lw \in LabelWidths, w \in WidthArgs, key \in ColKeyArgs, d \in DefaultArgs :
               AddColumn(lw, w, key, d) =>
                   IF columns = <<>>
                   THEN Len(columns') = (IF key = "checkbox" THEN 1 ELSE 2)
                   ELSE IF key \in KeysOf(columns)
                   THEN columns' = columns /\ lastOp'.err = "DuplicateKey"
                   ELSE /\ Len(columns') = Len(columns) + 1
                        /\ columns'[Len(columns')].key = key
                        /\ \A i \in 1 .. Len(columns) : columns'[i] = columns[i]
                        /\ lastOp'.err = "none"
      ]_vars

\* a second data column has just been added after the checkbox column and a first one
C7_Witness ==
    /\ row_disable /\ lastOp.op = "add_column" /\ lastOp.err = "none"
    /\ Len(columns) = 3
    /\ columns[1].key = "checkbox"

\* C8: every row has one cell per column, and with row-selection enabled the cell of
\* a row is a Checkbox in the checkbox column and in no other column.
C8_CellsMatchColumns ==
    \A i \in 1 .. Len(rows) :
        /\ DOMAIN rows[i].cells = KeysOf(columns)
        /\ Cardinality(DOMAIN rows[i].cells) = Len(columns)
        /\ row_disable =>
               \A c \in KeysOf(columns) :
                   (rows[i].cells[c].kind = "checkbox") <=> (c = "checkbox")

\* rows added before and after a column was added, one of them with fewer cells than
\* columns, under row-selection
C8_Witness ==
    /\ row_disable
    /\ Len(rows) = 2 /\ Len(columns) = 3
    /\ \E i \in 1 .. 2 : \E c \in KeysOf(columns) : rows[i].cells[c].kind = "none"
    /\ \E i \in 1 .. 2 : \A c \in KeysOf(columns) : rows[i].cells[c].kind # "none"

Addressing(show_cursor, cursor_type) ==
    show_cursor /\ (cursor_type = "cell" \/ cursor_type = "row")

NoFocusCall == lastOp'.focus_next = 0 /\ lastOp'.focus_previous = 0

\* C2: move-down with the cursor on the last row of a non-empty grid and vertical
\* escape enabled leaves the cursor where it is and calls focus_next once and
\* focus_previous not at all, under every cursor type and show_cursor value.
C2_EscapeDown ==
    [][\A sc \in BOOLEAN, ct \in CursorTypes :
        (/\ CursorDown(sc, ct)
         /\ Len(rows) > 0 /\ cursor.row = Len(rows) - 1
         /\ cursor_vertical_escape)
            => /\ cursor' = cursor
               /\ lastOp'.focus_next = 1
               /\ lastOp'.focus_previous = 0
      ]_vars

\* move-down has just left the grid from the last of three rows
C2_Witness ==
    /\ lastOp.op = "cursor_down" /\ lastOp.focus_next = 1
    /\ cursor_vertical_escape
    /\ Len(rows) = 3 /\ cursor.row = 2

\* C3 as stated: move-down without vertical escape, the cursor shown and of type
\* cell or row, moves the cursor from the last row to row 0 and from any other row
\* to the next row, in the same column, and calls neither focus_next nor
\* focus_previous.
C3_WrapDown ==
    [][\A sc \in BOOLEAN, ct \in CursorTypes :
        (CursorDown(sc, ct) /\ ~cursor_vertical_escape /\ Addressing(sc, ct))
            => /\ cursor' = IF cursor.row = Len(rows) - 1
                            THEN [row |-> 0, column |-> cursor.column]
                            ELSE [row |-> cursor.row + 1, column |-> cursor.column]
               /\ NoFocusCall
      ]_vars

\* C3 amended: the same on a grid that has rows (on a grid without rows there is no
\* next row to move to); no focus call is made in either grid.
C3_WrapDownNonEmpty ==
    [][\A sc \in BOOLEAN, ct \in CursorTypes :
        (CursorDown(sc, ct) /\ ~cursor_vertical_escape /\ Addressing(sc, ct))
            => /\ Len(rows) > 0 =>
                      /\ cursor' = IF cursor.row = Len(rows) - 1
                                   THEN [row |-> 0, column |-> cursor.column]
                                   ELSE [row |-> cursor.row + 1, column |-> cursor.column]
                      /\ 0 <= cursor'.row /\ cursor'.row < Len(rows)
               /\ NoFocusCall
      ]_vars

\* move-down without vertical escape has just put the cursor on row 0 of the second
\* column of a grid of three rows
C3_Witness ==
    /\ lastOp.op = "cursor_down" /\ lastOp.focus_next = 0
    /\ ~cursor_vertical_escape
    /\ Len(rows) = 3 /\ cursor = [row |-> 0, column |-> 1]

\* the table with the cursor on the row at the same distance from the other end
Mirrored == [Table EXCEPT !.cursor.row = Len(rows) - 1 - @]

\* what move-up does on row 0 with vertical escape, in every grid
EscapeUp(sc, ct) ==
    (CursorUp(sc, ct) /\ cursor.row = 0 /\ cursor_vertical_escape)
        => /\ cursor' = cursor
           /\ lastOp'.focus_previous = 1
           /\ lastOp'.focus_next = 0

\* what move-up does otherwise, the cursor shown and of type cell or row
WrapUp(sc, ct) ==
    (CursorUp(sc, ct) /\ ~(cursor.row = 0 /\ cursor_vertical_escape) /\ Addressing(sc, ct))
        => /\ cursor' = IF cursor.row = 0
                        THEN [row |-> Len(rows) - 1, column |-> cursor.column]
                        ELSE [row |-> cursor.row - 1, column |-> cursor.column]
           /\ NoFocusCall

\* move-up here is move-down seen from the other end of the grid; on a grid without
\* rows the cursor row 0 is its own mirror image
MirrorOfDown(sc, ct) ==
    LET m == IF Len(rows) = 0 THEN Table ELSE Mirrored
        d == cursor_down(m, sc, ct)
        u == cursor_up(Table, sc, ct)
    IN  /\ u.focus_previous = d.focus_next
        /\ u.focus_next = d.focus_previous
        /\ Len(rows) > 0 => u.cursor.row = Len(rows) - 1 - d.cursor.row
        /\ u.cursor.column = d.cursor.column

\* C4 as stated: in every grid state, the empty grid included, move-up on row 0 with
\* vertical escape calls focus_previous once and keeps the cursor; otherwise (cursor
\* shown, type cell or row) it goes from row 0 to the last row or up one row, same
\* column; and it is the mirror image of move-down, calling focus_previous exactly
\* where move-down calls focus_next at the opposite boundary.
C4_MirrorEverywhere ==
    [][\A sc \in BOOLEAN, ct \in CursorTypes :
        CursorUp(sc, ct) => EscapeUp(sc, ct) /\ WrapUp(sc, ct) /\ MirrorOfDown(sc, ct)
      ]_vars

\* C4 amended: the same in every state of a grid that has rows.  On a grid without
\* rows move-up with the cursor on row 0 and vertical escape still calls
\* focus_previous once, while move-down calls nothing there.
C4_MirrorNonEmpty ==
    [][\A sc \in BOOLEAN, ct \in CursorTypes :
        CursorUp(sc, ct) =>
            /\ EscapeUp(sc, ct)
            /\ Len(rows) > 0 =>
                   /\ WrapUp(sc, ct)
                   /\ MirrorOfDown(sc, ct)
                   /\ 0 <= cursor'.row /\ cursor'.row < Len(rows)
            /\ (Len(rows) = 0 /\ cursor.row = 0 /\ cursor_vertical_escape) =>
                   /\ cursor_down(Table, sc, ct).focus_next = 0
                   /\ cursor_down(Table, sc, ct).focus_previous = 0
      ]_vars

\* move-up without vertical escape has just wrapped to the last of three rows, in
\* the second column
C4_Witness ==
    /\ lastOp.op = "cursor_up" /\ lastOp.focus_previous = 0
    /\ ~cursor_vertical_escape
    /\ Len(rows) = 3 /\ cursor = [row |-> 2, column |-> 1]

\* C6: remove_row on the key of a row succeeds and leaves the other rows, one fewer,
\* in the order they had; from then on, as long as no row is added under that key,
\* get_cell on it fails with CellDoesNotExist and remove_row with RowDoesNotExist.
C6_RemoveRow ==
    [][/\ \A k \in 1 .. MaxNavRows :
            (RemoveRow(k) /\ k \in KeysOf(rows)) =>
                /\ lastOp'.err = "none"
                /\ Len(rows') = Len(rows) - 1
                /\ rows' = RemoveAt(rows, IndexOf(rows, k))
                /\ k \notin KeysOf(rows')
       /\ \A k \in (1 .. MaxNavRows) \ KeysOf(rows') :
            /\ \A c \in ColKeyArgs : GetCell(Table, k, c)'.err = "CellDoesNotExist"
            /\ remove_row(Table, k)'.err = "RowDoesNotExist"
       /\ \A k \in (1 .. MaxNavRows) \ KeysOf(rows) :
            RemoveRow(k) => lastOp'.err = "RowDoesNotExist" /\ rows' = rows
      ]_vars

\* the middle one of three rows has just been removed
C6_Witness ==
    /\ lastOp.op = "remove_row" /\ lastOp.err = "none"
    /\ Len(rows) = 2
    /\ rows[1].key = 1 /\ rows[2].key = 3

\* fixed_columns after two invocations of toggle-fixed-columns in a row
TwiceToggled ==
    LET once == toggle_fixed_columns(fixed_columns, fixed_columns_bak)
    IN  toggle_fixed_columns(once.fixed_columns, once.fixed_columns_bak).fixed_columns

\* C9 as stated: from every state, also one where the host has assigned
\* fixed_columns between earlier toggles, two invocations of toggle-fixed-columns in
\* a row bring fixed_columns back to its value before the first.
C9_PairRestores == TwiceToggled = fixed_columns

\* C9 amended: two invocations in a row bring fixed_columns back when it is 0, when
\* no count is remembered yet, or when it equals the remembered count; from a
\* non-zero count that differs from the remembered one (assigned by the host after
\* the first toggle) they leave the remembered count.  The first invocation ever
\* remembers the count it sees, and no later one changes what is remembered.
C9_PairRestoresRemembered ==
    [][/\ TwiceToggled =
            IF fixed_columns = 0 \/ fixed_columns_bak = <<>>
                                 \/ fixed_columns_bak = <<fixed_columns>>
            THEN fixed_columns ELSE fixed_columns_bak[1]
       /\ ToggleFixedColumns =>
            /\ fixed_columns_bak' = IF fixed_columns_bak = <<>> THEN <<fixed_columns>>
                                    ELSE fixed_columns_bak
            /\ fixed_columns' = IF fixed_columns = 0 THEN fixed_columns_bak'[1] ELSE 0
      ]_vars

\* a toggle has just restored the remembered, non-zero count
C9_Witness ==
    /\ lastOp.op = "toggle_fixed_columns"
    /\ fixed_columns > 0
    /\ fixed_columns_bak = <<fixed_columns>>

\* C10: the handler of a delivered RowsAdded or RowsRemoved sets the empty flag to
\* (row count = 0) with the rows as they are at delivery; so once a call has posted
\* a notification, whenever the queue is drained the flag says whether the grid has
\* no row.
C10_EmptyFlag ==
    [][/\ OnRowsRemoved =>
            /\ empty' = (Len(rows) = 0)
            /\ rows' = rows
            /\ queue' = Tail(queue)
       /\ (structural' /\ queue' = <<>>) => (empty' <=> Len(rows') = 0)
       /\ empty' # empty => OnRowsRemoved
      ]_vars

\* the last notification in the queue has just been delivered to a grid without rows
C10_Witness ==
    /\ lastOp.op = "on_rows_removed"
    /\ structural /\ queue = <<>>
    /\ empty /\ rows = <<>>

\* the cells add_row hands to the base class
WithCheckbox(cells) == IF row_disable THEN <<Checkbox(TRUE)>> \o cells ELSE cells

\* C11: every add_row appends exactly one RowsAdded to the queue and every
\* remove_row and clear exactly one RowsRemoved, whether the call succeeds or not,
\* and the message is posted first: the table it is posted on still has the rows
\* from before the call, and the base class changes the rows of that table.
C11_PostedBeforeChange ==
    [][/\ \A cells \in CellsOf({1}), key \in (1 .. MaxRows) \cup {NoKey}, e \in BOOLEAN :
            AddRow(cells, key, e) =>
                LET posted == PostMessage(Table, RowsAdded(e))
                IN  /\ posted.rows = rows
                    /\ queue' = Append(queue, RowsAdded(e))
                    /\ rows' = BaseAddRow(posted, WithCheckbox(cells), key).st.rows
       /\ \A key \in 1 .. MaxRows :
            RemoveRow(key) =>
                LET posted == PostMessage(Table, RowsRemoved(TRUE))
                IN  /\ posted.rows = rows
                    /\ queue' = Append(queue, RowsRemoved(TRUE))
                    /\ rows' = BaseRemoveRow(posted, key).st.rows
       /\ \A b \in BOOLEAN :
            Clear(b) =>
                LET posted == PostMessage(Table, RowsRemoved(FALSE))
                IN  /\ posted.rows = rows
                    /\ queue' = Append(queue, RowsRemoved(FALSE))
                    /\ rows' = <<>>
      ]_vars

\* remove_row has just taken one of two rows away and its RowsRemoved is in the queue
C11_Witness ==
    /\ lastOp.op = "remove_row" /\ lastOp.err = "none"
    /\ Len(rows) = 1
    /\ queue = <<RowsRemoved(TRUE)>>

\* the column set add_column is to leave on an empty column set
CleanColumns(key) == IF row_disable THEN <<"checkbox", key>> ELSE <<key>>

\* C12: clear leaves no row; clear with columns=True leaves no column either, and
\* an add_column that follows it succeeds and leaves the new column alone in the
\* column set, after a new checkbox column exactly when row-selection is enabled.
C12_ClearThenAddColumn ==
    [][/\ \A b \in BOOLEAN : Clear(b) => Len(rows') = 0
       /\ Clear(TRUE) => columns' = <<>>
       /\ \A lw \in LabelWidths, w \in WidthArgs, key \in ColKeyArgs, d \in DefaultArgs :
            (lastOp.op = "clear" /\ columns = <<>> /\ AddColumn(lw, w, key, d)) =>
                /\ lastOp'.err = "none"
                /\ [i \in 1 .. Len(columns') |-> columns'[i].key] = CleanColumns(key)
      ]_vars

\* C13: add_column fails with DuplicateKey exactly when the key is that of a column
\* the table had before the call, add_row exactly when the key is that of a row it
\* had; a failed add_column or add_row leaves the columns and the rows as they were.
C13_KeyCollision ==
    [][/\ \A lw \in LabelWidths, w \in WidthArgs, key \in ColKeyArgs, d \in DefaultArgs :
            AddColumn(lw, w, key, d) =>
                /\ (lastOp'.err = "DuplicateKey") <=> (key \in KeysOf(columns))
                /\ lastOp'.err # "none" => (columns' = columns /\ rows' = rows)
       /\ \A cells \in CellsOf({1}), key \in (1 .. MaxRows) \cup {NoKey}, e \in BOOLEAN :
            AddRow(cells, key, e) =>
                /\ (lastOp'.err = "DuplicateKey") <=> (key # NoKey /\ key \in KeysOf(rows))
                /\ lastOp'.err # "none" => (columns' = columns /\ rows' = rows)
      ]_vars

\* C14: remove_row on a key no row has raises RowDoesNotExist to the caller and
\* leaves the rows with their cells and checkboxes, the columns and the cursor as
\* they were.
C14_RemoveMissing ==
    [][\A key \in (1 .. MaxRows + 1) \ KeysOf(rows) :
        RemoveRow(key) =>
            /\ lastOp'.err = "RowDoesNotExist"
            /\ rows' = rows
            /\ columns' = columns
            /\ cursor' = cursor
      ]_vars

\* remove_row has just been refused on a table of two rows, the second toggled off
\* and under the cursor
C14_Witness ==
    /\ lastOp.op = "remove_row" /\ lastOp.err = "RowDoesNotExist"
    /\ row_disable /\ Len(rows) = 2 /\ cursor.row = 1
    /\ rows[1].cells["checkbox"] = Checkbox(TRUE)
    /\ rows[2].cells["checkbox"] = Checkbox(FALSE)

\* what a command that does nothing leaves alone
NothingChanged == UNCHANGED <<rows, columns, cursor, empty, queue>>

\* C15: remove-current-row and toggle-current-row raise nothing in any state; with a
\* cursor that is on no cell, and for toggle-current-row also on a table without a
\* checkbox column, they change nothing and post nothing; with a cursor on a cell
\* remove-current-row removes the row under the cursor and no other.
C15_SilentCommands ==
    [][/\ (ToggleRow \/ RemoveCurrentRow) => lastOp'.err = "none"
       /\ ((ToggleRow \/ RemoveCurrentRow) /\ ~IsValidCoordinate(Table, cursor))
            => NothingChanged
       /\ (ToggleRow /\ "checkbox" \notin KeysOf(columns)) => NothingChanged
       /\ (RemoveCurrentRow /\ IsValidCoordinate(Table, cursor))
            => rows' = RemoveAt(rows, cursor.row + 1)
      ]_vars

\* the row the table holds for the cells of a caller: the Checkbox first under
\* row-selection, and no value in the columns the cells do not reach
StoredCells(cells) ==
    [c \in KeysOf(columns) |->
        IF IndexOf(columns, c) <= Len(WithCheckbox(cells))
        THEN WithCheckbox(cells)[IndexOf(columns, c)] ELSE NoneCell]

\* the messages one replace_all_rows of n rows posts
ReplaceMessages(n) == <<RowsRemoved(FALSE)>> \o [i \in 1 .. n |-> RowsAdded(FALSE)]

\* C16: a replace_all_rows that returns leaves the table holding the supplied rows
\* and no other, in the supplied order, under the columns it had, and has posted one
\* RowsRemoved and then one RowsAdded per row, all with explicit_by_user = False;
\* whatever it posts before an exception ends it is marked so too.  remove_row and
\* an add_row called without explicit_by_user post a message marked True.
C16_ReplaceAllRows ==
    [][/\ \A n \in 0 .. MaxRows : \A new_rows \in [1 .. n -> WidthCells] :
            ReplaceAllRows(new_rows) =>
                /\ lastOp'.err = "none" =>
                       /\ Len(rows') = n
                       /\ \A i \in 1 .. n : rows'[i].cells = StoredCells(new_rows[i])
                       /\ [i \in 1 .. Len(columns') |-> columns'[i].key]
                              = [i \in 1 .. Len(columns) |-> columns[i].key]
                       /\ queue' = queue \o ReplaceMessages(n)
                /\ \E m \in 0 .. n : queue' = queue \o ReplaceMessages(m)
       /\ \A key \in 1 .. MaxRows + 1 :
            RemoveRow(key) => queue' = Append(queue, RowsRemoved(TRUE))
       /\ \A cells \in WidthCells :
            AddRow(cells, NoKey, TRUE) => queue' = Append(queue, RowsAdded(TRUE))
      ]_vars

\* replace_all_rows has just put a wide row and then a narrow row in place of the
\* rows of the table
C16_Witness ==
    /\ lastOp.op = "replace_all_rows" /\ lastOp.err = "none"
    /\ ~row_disable /\ KeysOf(columns) = {"a"}
    /\ Len(rows) = 2
    /\ rows[1].cells["a"] = TextCell(2) /\ rows[2].cells["a"] = TextCell(1)
    /\ queue = ReplaceMessages(2)

\* C17 as stated: the grid is empty (it has no row, or no column to have a cell in)
\* or the cursor is on one of its cells; and the cursor row is never -1 and, on a
\* grid that has rows, never the row count.
C17_CursorInBounds ==
    /\ (rows = <<>> \/ columns = <<>> \/ IsValidCoordinate(Table, cursor))
    /\ cursor.row # -1
    /\ (rows # <<>> => cursor.row # Len(rows))

\* the cursor row is one of the rows, and the cursor column one of the columns,
\* where there are any; without rows the cursor row is 0 or -1
CursorWithin ==
    /\ rows # <<>> => (0 <= cursor.row /\ cursor.row < Len(rows))
    /\ columns # <<>> => (0 <= cursor.column /\ cursor.column < Len(columns))
    /\ rows = <<>> => cursor.row \in {-1, 0}
    /\ columns = <<>> => cursor.column = 0

\* C17 amended: on a grid that has rows the cursor row is one of them (and on one
\* that has columns the cursor column one of them); remove-current-row on the last
\* row leaves the cursor on the new last row.  On a grid without rows move-up with
\* vertical escape disabled and a shown cell or row cursor wraps to row_count - 1,
\* which is -1: the cursor row is -1 from then on, and nothing else makes it -1; the
\* next add_row puts it on row 0.
C17_CursorWithinRows ==
    [][/\ CursorWithin'
       /\ (RemoveCurrentRow /\ Len(rows) > 1 /\ cursor.row = Len(rows) - 1)
            => cursor'.row = Len(rows') - 1
       /\ \A sc \in BOOLEAN, ct \in CursorTypes :
            (CursorUp(sc, ct) /\ rows = <<>> /\ cursor.row = 0
                /\ ~cursor_vertical_escape /\ Addressing(sc, ct))
                => cursor'.row = -1
       /\ (cursor'.row = -1 /\ cursor.row # -1)
            => /\ lastOp'.op = "cursor_up"
               /\ rows = <<>> /\ ~cursor_vertical_escape
       /\ (lastOp'.op = "add_row" /\ lastOp'.err = "none" /\ rows = <<>>)
            => cursor'.row = 0
      ]_vars

\* remove-current-row has just removed the last of three rows, under the cursor,
\* and the cursor is on the row that is last now
C17_Witness ==
    /\ lastOp.op = "action_remove_row"
    /\ Len(rows) = 2 /\ Len(columns) = 2
    /\ rows[1].key = 1 /\ rows[2].key = 2
    /\ cursor = [row |-> 1, column |-> 1]

\* the widest cell of a column over the rows of the table (0 without rows)
WidestCell(rs, key) == SeqMax([i \in 1 .. Len(rs) |-> CellWidth(rs[i].cells[key])])

WidthOp == lastOp'.op \in {"remove_row", "clear", "replace_all_rows"} /\ lastOp'.err = "none"

\* C18: after every remove_row, clear and replace_all_rows the content width of each
\* auto-width column is the width of the widest cell the column has in the rows
\* that are left (and no less than its label): smaller than before when the widest
\* row went, and back to the label's width when no row is left.
C18_WidthsRefreshed ==
    [][WidthOp =>
        \A i \in 1 .. Len(columns') :
            columns'[i].auto_width =>
                columns'[i].content_width
                    = Max(WidestCell(rows', columns'[i].key), columns'[i].label_width)
      ]_vars

\* C19: an add_row refused for its key leaves the rows as they were and one
\* RowsAdded more in the queue, a remove_row refused for its key the rows as they
\* were and one RowsRemoved more (a message for a change that did not take place);
\* the handler of each message still sets the empty flag to (row count = 0).
C19_MessageOfRefusedCall ==
    [][/\ \A cells \in CellsOf({1}), key \in KeysOf(rows), e \in BOOLEAN :
            AddRow(cells, key, e) =>
                /\ lastOp'.err = "DuplicateKey"
                /\ rows' = rows
                /\ queue' = Append(queue, RowsAdded(e))
       /\ \A key \in (1 .. MaxRows + 1) \ KeysOf(rows) :
            RemoveRow(key) =>
                /\ lastOp'.err = "RowDoesNotExist"
                /\ rows' = rows
                /\ queue' = Append(queue, RowsRemoved(TRUE))
       /\ OnRowsRemoved => (empty' <=> Len(rows') = 0)
      ]_vars

\* the table holds the one row it held before an add_row under the key of that row
\* was refused, and the RowsAdded of the refused call is in the queue
C19_Witness ==
    /\ lastOp.op = "add_row" /\ lastOp.err = "DuplicateKey"
    /\ Len(rows) = 1
    /\ queue = <<RowsAdded(TRUE)>>
    /\ ~empty

\* C20: with vertical escape enabled, on a grid without rows and the cursor on row 0
\* move-up calls focus_previous once, while move-down calls neither focus_next nor
\* focus_previous, row 0 not being row_count - 1 = -1; on a grid that has rows
\* neither command wraps: move-down never moves the cursor up, move-up never down,
\* and the cursor row changes by 1 at most.
C20_EmptyGridAsymmetry ==
    [][\A sc \in BOOLEAN, ct \in CursorTypes :
        /\ (CursorUp(sc, ct) /\ cursor_vertical_escape /\ rows = <<>> /\ cursor.row = 0)
             => /\ lastOp'.focus_previous = 1 /\ lastOp'.focus_next = 0
                /\ cursor' = cursor
        /\ (CursorDown(sc, ct) /\ cursor_vertical_escape /\ rows = <<>> /\ cursor.row = 0)
             => /\ cursor.row # Len(rows) - 1
                /\ NoFocusCall
        /\ (CursorDown(sc, ct) /\ cursor_vertical_escape /\ rows # <<>>)
             => (cursor'.row = cursor.row \/ cursor'.row = cursor.row + 1)
        /\ (CursorUp(sc, ct) /\ cursor_vertical_escape /\ rows # <<>>)
             => (cursor'.row = cursor.row \/ cursor'.row = cursor.row - 1)
      ]_vars

\* move-down has just run on a grid without rows, vertical escape enabled, and has
\* called nothing
C20_Witness ==
    /\ lastOp.op = "cursor_down" /\ lastOp.focus_next = 0
    /\ cursor_vertical_escape
    /\ rows = <<>> /\ cursor.row = 0 /\ Len(columns) = 2

====
